---- MODULE Spec2Model ----
(***************************************************************************)
(* Model of example_app.py: the State classes (InitialState, StateA,       *)
(* StateB, StateC), the DownloadManager worker pool with SleepTask, and    *)
(* StateMachine.run().                                                     *)
(*                                                                         *)
(* Four specifications share the variables:                                *)
(*   Spec      StateMachine().run(): the main loop and its worker threads  *)
(*   SpecUnit  the State methods called directly on a constructed          *)
(*             StateMachine, as example_app_test.py calls them             *)
(*   SpecDM    a client of DownloadManager calling set_progress_callback,  *)
(*             add_task, start and stop in any order                       *)
(*   SpecMock  run() with the primary state's transition_state patched to  *)
(*             return an arbitrary name                                    *)
(***************************************************************************)
EXTENDS Integers, Sequences, FiniteSets

\* ---------------------------------------------------------------- bounds
MaxSecondary == 2
MaxTasks == 1
MaxClientTasks == 2
MaxEvents == 1
MaxWorkers == 2
MaxStops == 1

\* ------------------------------------------------------- program constants
DefaultNumWorkers == 2
ProgressDone == 100

\* Python's None for names and payloads; sg.WIN_CLOSED is None as well.
None == "None"
WIN_CLOSED == None
\* State.window = None, and the poison value stop() puts on the queue.
NoWindow == 0
Poison == 0

\* Keys of StateMachine.states; each state's name equals its key.
StateNames == {"initial", "state_a", "state_b", "state_c"}

ClassOf(s) ==
  CASE s = "initial" -> "InitialState"
    [] s = "state_a" -> "StateA"
    [] s = "state_b" -> "StateB"
    [] s = "state_c" -> "StateC"

\* Event keys of each get_layout().
LayoutEvents(s) ==
  CASE s = "initial" -> {"-go_to_state_a-", "-go_to_state_b-", "-go_to_state_c-",
                         "-exit-", "-download-"}
    [] s = "state_a" -> {"-go_to_state_b-", "-go_to_initial-", "-exit-"}
    [] s = "state_b" -> {"-go_to_state_a-", "-go_to_initial-", "-exit-"}
    [] s = "state_c" -> {"-close_state_c-"}

Events == {"-go_to_state_a-", "-go_to_state_b-", "-go_to_state_c-", "-go_to_initial-",
           "-exit-", "-download-", "-PROGRESS-", "-close_state_c-", "-other-", WIN_CLOSED}

\* Contents of the file_url input field, and the percentages a task reports:
\* below 100, exactly 100, above 100.
FileUrls == {"", "http://x"}
ProgressVals == {50, 100, 150}
NoProgress == -1
Values == [file_url : FileUrls, progress : ProgressVals]
NoValues == [file_url |-> "", progress |-> 50]

\* progress_callback is "None" (the DownloadManager default), "lambda" (the one
\* StateMachine.run installs) or "sink" (a callable that returns at once).

VARIABLES
  window,             \* State.window per state: the identity of a live window
                      \* object, NoWindow = None
  progress_bar,       \* the "-progress_bar-" element of the initial window
  thread_events,      \* write_event_value events not yet read, oldest first
  secondary_windows,  \* run()'s list of secondary states
  raised,             \* exception raised by the last call of the main thread
  current_state,      \* StateMachine.current_state (a key of states)
  pc,                 \* position of the main thread in run()
  call,               \* the latest direct call of a State method by a test: the
                      \* method, self, event, values and whether
                      \* secondary_windows was passed
  next_state_name,    \* run()'s local next_state_name
  data,               \* run()'s local data
  num_workers,        \* DownloadManager.num_workers
  progress_callback,  \* DownloadManager.progress_callback
  task_callback,      \* Task.progress_callback per task
  tasks_created,      \* tasks constructed and handed to add_task so far
  task_queue,         \* DownloadManager.task_queue, head first
  unfinished_tasks,   \* queue.Queue.unfinished_tasks
  stops_called,       \* calls of stop() so far
  wpc,                \* position of each worker thread
  wtask,              \* the task a worker holds
  wprogress,          \* SleepTask.run's local progress in each worker
  run_count           \* run() invocations per task

gui_vars == <<window, progress_bar, thread_events,
              secondary_windows, raised>>
main_vars == <<current_state, pc, call, next_state_name, data>>
dm_vars == <<num_workers, progress_callback, task_callback, tasks_created,
             task_queue, unfinished_tasks, stops_called>>
worker_vars == <<wpc, wtask, wprogress, run_count>>
vars == <<gui_vars, main_vars, dm_vars, worker_vars>>

\* The objects the State methods read and write, as one record.
Objects ==
  [window |-> window, progress_bar |-> progress_bar, thread_events |-> thread_events,
   secondary_windows |-> secondary_windows, raised |-> None]

SetObjects(m) ==
  /\ window' = m.window
  /\ progress_bar' = m.progress_bar
  /\ thread_events' = m.thread_events
  /\ secondary_windows' = m.secondary_windows
  /\ raised' = m.raised

HiddenBar == [visible |-> FALSE, value |-> 0]

\* ------------------------------------------------------------ State classes

\* sg.Window(...): a new window object, distinct from every window a state
\* holds; the initial window's progress bar is
\* created with visible=self.show_progress_bar, which is False.
StateIndex(s) ==
  CASE s = "initial" -> 0
    [] s = "state_a" -> 1
    [] s = "state_b" -> 2
    [] s = "state_c" -> 3

\* The identity of a window newly made for state s: one of two per state, so it
\* differs from the windows of the other states and from the window s holds.
FreshHandle(m, s) ==
  IF m.window[s] = 2 * StateIndex(s) + 1
    THEN 2 * StateIndex(s) + 2
    ELSE 2 * StateIndex(s) + 1

NewWindow(m, s) ==
  [m EXCEPT !.window[s] = FreshHandle(m, s),
            !.progress_bar = IF s = "initial" THEN HiddenBar ELSE @]

\* Window.close(): the window and the events still queued for it are gone.
WindowClose(m, s) ==
  [m EXCEPT !.thread_events = SelectSeq(@, LAMBDA e : e.window # m.window[s]),
            !.progress_bar = IF s = "initial" THEN HiddenBar ELSE @]

State_open_window(m, s) ==
  IF m.window[s] = NoWindow THEN NewWindow(m, s) ELSE m

State_close_window_keep(m, s) == m
State_close_window(m, s) ==
  IF m.window[s] # NoWindow
    THEN [WindowClose(m, s) EXCEPT !.window[s] = NoWindow]
    ELSE m

StateA_open_window(m, s) == NewWindow(m, s)

\* self.window.close() on None raises AttributeError before self.window = None.
StateA_close_window(m, s) ==
  IF m.window[s] = NoWindow
    THEN [m EXCEPT !.raised = "AttributeError"]
    ELSE [WindowClose(m, s) EXCEPT !.window[s] = NoWindow]

StateC_open_window(m, s) ==
  IF m.window[s] = NoWindow THEN NewWindow(m, s) ELSE m

open_window(m, s) ==
  CASE ClassOf(s) = "StateA" -> StateA_open_window(m, s)
    [] ClassOf(s) = "StateC" -> StateC_open_window(m, s)
    [] OTHER -> State_open_window(m, s)

close_window(m, s) ==
  CASE ClassOf(s) = "StateA" -> StateA_close_window(m, s)
    [] OTHER -> State_close_window(m, s)

\* What transition_state returns, with the objects as it leaves them.
Ret(m, next, d) == [m |-> m, next |-> next, data |-> d]

\* self.window["-progress_bar-"].update(...) in the "-PROGRESS-" branch.
UpdateBar_late(m, s, progress) ==
  IF m.window[s] = NoWindow THEN m
  ELSE IF progress > ProgressDone
    THEN [m EXCEPT !.progress_bar = [visible |-> FALSE, value |-> 0]]
    ELSE [m EXCEPT !.progress_bar = [visible |-> TRUE, value |-> progress]]

UpdateBar(m, s, progress) ==
  IF m.window[s] = NoWindow THEN m
  ELSE IF progress >= ProgressDone
    THEN [m EXCEPT !.progress_bar = [visible |-> FALSE, value |-> 0]]
    ELSE [m EXCEPT !.progress_bar = [visible |-> TRUE, value |-> progress]]

\* has_list: secondary_windows was passed (it defaults to None).
InitialState_go_to_state_c_no_append(m, has_list) == open_window(m, "state_c")
InitialState_go_to_state_c(m, has_list) ==
  LET m1 == open_window(m, "state_c")
  IN IF has_list
       THEN [m1 EXCEPT !.secondary_windows = Append(@, "state_c")]
       ELSE m1

InitialState_else_None(s) == None
InitialState_else(s) == s

InitialState_transition_state(m, s, event, values, has_list) ==
  IF event = "-go_to_state_a-" THEN Ret(m, "state_a", None)
  ELSE IF event = "-go_to_state_b-" THEN Ret(m, "state_b", None)
  ELSE IF event = "-go_to_state_c-"
    THEN Ret(InitialState_go_to_state_c(m, has_list), None, None)
  ELSE IF event = "-download-"
    THEN IF values.file_url # ""
           THEN Ret(m, "download", values.file_url)
           ELSE Ret(m, s, None)
  ELSE IF event = "-PROGRESS-"
    THEN Ret(UpdateBar(m, s, values.progress), None, None)
  ELSE Ret(m, InitialState_else(s), None)

StateA_transition_state_swapped(m, s, event, values, has_list) ==
  IF event = "-go_to_state_b-" THEN Ret(m, "initial", None)
  ELSE IF event = "-go_to_initial-" THEN Ret(m, "state_b", None)
  ELSE Ret(m, s, None)

StateA_transition_state(m, s, event, values, has_list) ==
  IF event = "-go_to_state_b-" THEN Ret(m, "state_b", None)
  ELSE IF event = "-go_to_initial-" THEN Ret(m, "initial", None)
  ELSE Ret(m, s, None)

StateB_transition_state(m, s, event, values, has_list) ==
  IF event = "-go_to_state_a-" THEN Ret(m, "state_a", None)
  ELSE IF event = "-go_to_initial-" THEN Ret(m, "initial", None)
  ELSE Ret(m, s, None)

StateC_transition_state(m, s, event, values, has_list) ==
  IF event = "-close_state_c-"
    THEN Ret(close_window(m, s), None, None)
    ELSE Ret(m, s, None)

transition_state(m, s, event, values, has_list) ==
  CASE ClassOf(s) = "InitialState" -> InitialState_transition_state(m, s, event, values, has_list)
    [] ClassOf(s) = "StateA" -> StateA_transition_state(m, s, event, values, has_list)
    [] ClassOf(s) = "StateB" -> StateB_transition_state(m, s, event, values, has_list)
    [] ClassOf(s) = "StateC" -> StateC_transition_state(m, s, event, values, has_list)

\* ---------------------------------------------------------- DownloadManager

Workers == 1..num_workers
Tasks == 1..(MaxTasks + MaxClientTasks)
Dead == {"terminated", "faulted"}

\* queue.Queue.put, with the unfinished_tasks count it keeps.
Queue_put_front(q, item) == <<item>> \o q

Queue_put(q, item) == Append(q, item)

\* add_task's effect on the queue.
add_task_twice(q, task) == Queue_put(Queue_put(q, task), task)

add_task(q, task) == Queue_put(q, task)

\* stop(): one None per worker.
RECURSIVE PutPoison(_, _)
PutPoison(q, n) == IF n = 0 THEN q ELSE PutPoison(Queue_put(q, Poison), n - 1)

stop(q, n) == PutPoison(q, n)

\* set_progress_callback(cb)
DMSetCallback(cb) ==
  /\ progress_callback' = cb
  /\ UNCHANGED <<num_workers, task_callback, tasks_created, task_queue,
                 unfinished_tasks, stops_called>>

\* add_task(task) for a newly constructed SleepTask, at most cap tasks in all.
AddTask(cap) ==
  /\ tasks_created < cap
  /\ LET task == tasks_created + 1
     IN /\ tasks_created' = task
        /\ task_callback' = [task_callback EXCEPT ![task] = progress_callback]
        /\ task_queue' = add_task(task_queue, task)
        /\ unfinished_tasks' = unfinished_tasks + (Len(task_queue') - Len(task_queue))
  /\ UNCHANGED <<num_workers, progress_callback, stops_called>>

\* start(): one thread per worker, each entering worker().
StartWorkers ==
  /\ \A w \in Workers : wpc[w] = "unstarted"
  /\ wpc' = [w \in Workers |-> "get"]
  /\ UNCHANGED <<wtask, wprogress, run_count>>

StopWorkers ==
  /\ stops_called < MaxStops
  /\ task_queue' = stop(task_queue, num_workers)
  /\ unfinished_tasks' = unfinished_tasks + num_workers
  /\ stops_called' = stops_called + 1
  /\ UNCHANGED <<num_workers, progress_callback, task_callback, tasks_created>>

\* worker(): task = self.task_queue.get(); None breaks the loop, else task.run().
worker_on_poison(task) == "terminated"

WorkerGet(w) ==
  /\ wpc[w] = "get"
  /\ task_queue # <<>>
  /\ LET task == Head(task_queue)
     IN /\ task_queue' = Tail(task_queue)
        /\ IF task = Poison
             THEN /\ wpc' = [wpc EXCEPT ![w] = worker_on_poison(task)]
                  /\ UNCHANGED <<wtask, wprogress, run_count>>
             ELSE /\ wpc' = [wpc EXCEPT ![w] = "run"]
                  /\ wtask' = [wtask EXCEPT ![w] = task]
                  /\ wprogress' = [wprogress EXCEPT ![w] = NoProgress]
                  /\ run_count' = [run_count EXCEPT ![task] = @ + 1]
  /\ UNCHANGED <<gui_vars, main_vars, num_workers, progress_callback, task_callback,
                 tasks_created, unfinished_tasks, stops_called>>

\* SleepTask.run: if progress > 100: break
SleepTask_finished_at_100(progress) == progress >= ProgressDone

SleepTask_finished(progress) == progress > 100

\* The callback returned: run() loops or returns, and worker() calls task_done().
\* wprogress keeps the last value reported until the next task is dequeued.
AfterCallback(w, progress) ==
  IF SleepTask_finished(progress)
    THEN /\ wpc' = [wpc EXCEPT ![w] = "get"]
         /\ wtask' = [wtask EXCEPT ![w] = Poison]
         /\ wprogress' = [wprogress EXCEPT ![w] = progress]
         /\ unfinished_tasks' = unfinished_tasks - 1
    ELSE /\ wpc' = [wpc EXCEPT ![w] = "run"]
         /\ wprogress' = [wprogress EXCEPT ![w] = progress]
         /\ UNCHANGED <<wtask, unfinished_tasks>>

\* An exception leaves run() and worker(): the thread ends, task_done() is skipped.
Fault(w, progress) ==
  /\ wpc' = [wpc EXCEPT ![w] = "faulted"]
  /\ wprogress' = [wprogress EXCEPT ![w] = progress]
  /\ UNCHANGED <<wtask, unfinished_tasks>>

\* One pass of SleepTask.run's loop up to self.progress_callback(progress); the
\* lambda's condition (current_state.window is not None) is its first read.
WorkerReport(w) ==
  /\ wpc[w] = "run"
  /\ \E progress \in ProgressVals :
       /\ progress >= wprogress[w]
       /\ CASE task_callback[wtask[w]] = "None" -> Fault(w, progress)
            [] task_callback[wtask[w]] = "sink" -> AfterCallback(w, progress)
            [] task_callback[wtask[w]] = "lambda" ->
                 IF window[current_state] # NoWindow
                   THEN /\ wpc' = [wpc EXCEPT ![w] = "cb_write"]
                        /\ wprogress' = [wprogress EXCEPT ![w] = progress]
                        /\ UNCHANGED <<wtask, unfinished_tasks>>
                   ELSE AfterCallback(w, progress)
  /\ UNCHANGED <<gui_vars, main_vars, num_workers, progress_callback, task_callback,
                 tasks_created, task_queue, stops_called, run_count>>

\* run() has left its loop: read_all_windows is not called again.
LoopEnded == {"stop", "join", "done", "fatal"}

\* The lambda's second read: self.current_state.window.write_event_value(...).
\* An event written after the loop ended is never read and is not kept.
WorkerWrite(w) ==
  /\ wpc[w] = "cb_write"
  /\ IF window[current_state] = NoWindow
       THEN /\ Fault(w, wprogress[w])
            /\ UNCHANGED thread_events
       ELSE /\ IF pc \in LoopEnded
                 THEN UNCHANGED thread_events
                 ELSE /\ Len(thread_events) < MaxEvents
                      /\ thread_events' = Append(thread_events,
                           [window |-> window[current_state], value |-> wprogress[w]])
            /\ AfterCallback(w, wprogress[w])
  /\ UNCHANGED <<window, progress_bar, secondary_windows, raised,
                 main_vars, num_workers, progress_callback, task_callback,
                 tasks_created, task_queue, stops_called, run_count>>

\* ------------------------------------------------------------- StateMachine

NoCall == [method |-> None, state |-> None, event |-> None, values |-> NoValues,
           has_list |-> FALSE]

\* The state after StateMachine() with a DownloadManager of n workers.
InitWith(n) ==
  /\ window = [s \in StateNames |-> NoWindow]
  /\ progress_bar = HiddenBar
  /\ thread_events = <<>>
  /\ secondary_windows = <<>>
  /\ raised = None
  /\ current_state = "initial"
  /\ pc = "init"
  /\ call = NoCall
  /\ next_state_name = None
  /\ data = None
  /\ num_workers = n
  /\ progress_callback = "None"
  /\ task_callback = [t \in Tasks |-> "None"]
  /\ tasks_created = 0
  /\ task_queue = <<>>
  /\ unfinished_tasks = 0
  /\ stops_called = 0
  /\ wpc = [w \in 1..n |-> "unstarted"]
  /\ wtask = [w \in 1..n |-> Poison]
  /\ wprogress = [w \in 1..n |-> NoProgress]
  /\ run_count = [t \in Tasks |-> 0]

Init == InitWith(DefaultNumWorkers)

\* The model's cap on the secondary list.
WithinBounds(m) == Len(m.secondary_windows) <= MaxSecondary

\* run() up to the loop: open the primary window, install the lambda, start().
RunStart ==
  /\ pc = "init"
  /\ SetObjects(open_window(Objects, current_state))
  /\ progress_callback' = "lambda"
  /\ StartWorkers
  /\ pc' = "loop"
  /\ UNCHANGED <<current_state, call, next_state_name, data, num_workers,
                 task_callback, tasks_created, task_queue, unfinished_tasks,
                 stops_called>>

\* The branch run() takes on next_state_name.
run_branch_no_swap(next) ==
  IF next = "download" THEN "add_task"
  ELSE IF next = "state_c" THEN "secondary"
  ELSE "none"

run_branch(next) ==
  IF next = "download" THEN "add_task"
  ELSE IF next = "state_c" THEN "secondary"
  ELSE IF next \in StateNames THEN "primary"
  ELSE "none"

\* run() after transition_state returned (next, d), the objects being m.
ApplyResult(m, next, d) ==
  /\ next_state_name' = next
  /\ data' = d
  /\ UNCHANGED current_state
  /\ CASE run_branch(next) = "add_task" ->
            /\ AddTask(MaxTasks)
            /\ SetObjects(m)
            /\ pc' = "loop"
       [] run_branch(next) = "secondary" ->
            LET m1 == open_window([m EXCEPT !.secondary_windows = Append(@, next)], next)
            IN /\ WithinBounds(m1)
               /\ SetObjects(m1)
               /\ pc' = "loop"
               /\ UNCHANGED dm_vars
       [] run_branch(next) = "primary" ->
            LET m1 == close_window(m, current_state)
            IN /\ SetObjects(m1)
               /\ pc' = IF m1.raised # None THEN "fatal" ELSE "swap"
               /\ UNCHANGED dm_vars
       [] OTHER ->
            /\ SetObjects(m)
            /\ pc' = "loop"
            /\ UNCHANGED dm_vars

\* An event of the primary window: close and "-exit-" leave the loop, any other
\* goes to the primary state's transition_state.
HandlePrimary(m, event, values) ==
  IF event = WIN_CLOSED \/ event = "-exit-"
    THEN /\ pc' = "stop"
         /\ SetObjects(m)
         /\ UNCHANGED <<current_state, call, next_state_name, data, dm_vars>>
    ELSE LET r == transition_state(m, current_state, event, values, TRUE)
         IN /\ WithinBounds(r.m)
            /\ UNCHANGED call
            /\ ApplyResult(r.m, r.next, r.data)

\* read_all_windows() returns a button or close event of the primary window.
ReadPrimary ==
  /\ pc = "loop"
  /\ \E event \in LayoutEvents(current_state) \cup {WIN_CLOSED} :
       \E url \in (IF current_state = "initial" THEN FileUrls ELSE {""}) :
         HandlePrimary(Objects, event, [NoValues EXCEPT !.file_url = url])
  /\ UNCHANGED worker_vars

\* read_all_windows() returns the oldest write_event_value event; its window is
\* the primary window, the only one the lambda writes to.
ReadProgress ==
  /\ pc = "loop"
  /\ thread_events # <<>>
  /\ Head(thread_events).window = window[current_state]
  /\ HandlePrimary([Objects EXCEPT !.thread_events = Tail(@)], "-PROGRESS-",
                   [file_url |-> "", progress |-> Head(thread_events).value])
  /\ UNCHANGED worker_vars

\* list.remove(x): the first occurrence.
RECURSIVE ListRemove(_, _)
ListRemove(seq, x) ==
  IF seq = <<>> THEN <<>>
  ELSE IF Head(seq) = x THEN Tail(seq)
  ELSE <<Head(seq)>> \o ListRemove(Tail(seq), x)

\* for secondary_window in secondary_windows[:]: ... over the snapshot from
\* index i on, for an event of the window with handle h.
RECURSIVE SecondaryLoop(_, _, _, _, _, _)
SecondaryLoop(m, next, snapshot, i, h, event) ==
  IF i > Len(snapshot) THEN [m |-> m, next |-> next]
  ELSE LET sw == snapshot[i]
       IN IF m.window[sw] = h
            THEN LET r == transition_state(m, sw, event, NoValues, FALSE)
                 IN IF r.next = None
                      THEN [m |-> [close_window(r.m, sw) EXCEPT
                                     !.secondary_windows = ListRemove(@, sw)],
                            next |-> r.next]
                      ELSE SecondaryLoop(r.m, r.next, snapshot, i + 1, h, event)
            ELSE SecondaryLoop(m, next, snapshot, i + 1, h, event)

\* The secondary branch of run() for an event of the window of state s.
SecondaryEvent_as_primary(s, event) ==
  /\ window[s] # NoWindow
  /\ window[s] # window[current_state]
  /\ HandlePrimary(Objects, event, NoValues)
  /\ UNCHANGED worker_vars

SecondaryEvent(s, event) ==
  /\ window[s] # NoWindow
  /\ window[s] # window[current_state]
  /\ IF \E i \in 1..Len(secondary_windows) : window[secondary_windows[i]] = window[s]
       THEN LET r == SecondaryLoop(Objects, next_state_name, secondary_windows,
                                   1, window[s], event)
            IN /\ SetObjects(r.m)
               /\ next_state_name' = r.next
       ELSE UNCHANGED <<gui_vars, next_state_name>>
  /\ UNCHANGED <<current_state, pc, call, data, dm_vars, worker_vars>>

\* read_all_windows() returns an event of an open window other than the primary.
ReadSecondary ==
  /\ pc = "loop"
  /\ \E s \in StateNames :
       \E event \in LayoutEvents(s) \cup {WIN_CLOSED} : SecondaryEvent(s, event)

\* self.current_state = self.states[next_state_name]
Swap ==
  /\ pc = "swap"
  /\ current_state' = next_state_name
  /\ pc' = "open"
  /\ UNCHANGED <<gui_vars, call, next_state_name, data, dm_vars, worker_vars>>

\* self.current_state.open_window()
Open ==
  /\ pc = "open"
  /\ SetObjects(open_window(Objects, current_state))
  /\ pc' = "loop"
  /\ UNCHANGED <<current_state, call, next_state_name, data, dm_vars, worker_vars>>

\* self.download_manager.stop()
Stop ==
  /\ pc = "stop"
  /\ StopWorkers
  /\ pc' = "join"
  /\ UNCHANGED <<gui_vars, current_state, call, next_state_name, data, worker_vars>>

\* for thread in worker_threads: thread.join()
Join ==
  /\ pc = "join"
  /\ \A w \in Workers : wpc[w] \in Dead
  /\ pc' = "done"
  /\ UNCHANGED <<gui_vars, current_state, call, next_state_name, data, dm_vars,
                 worker_vars>>

Next ==
  \/ RunStart
  \/ ReadPrimary
  \/ ReadProgress
  \/ ReadSecondary
  \/ Swap
  \/ Open
  \/ Stop
  \/ Join
  \/ \E w \in Workers : WorkerGet(w)
  \/ \E w \in Workers : WorkerReport(w)
  \/ \E w \in Workers : WorkerWrite(w)

Spec == Init /\ [][Next]_vars

\* The report of SleepTask.run after which run() ends: the one above 100 that
\* the passing of time brings, or one whose callback raises.
TaskEnds(w) ==
  /\ WorkerReport(w)
  /\ \/ wpc'[w] \in {"get", "faulted"}
     \/ wpc'[w] = "cb_write" /\ SleepTask_finished(wprogress'[w])

\* run() with threads that are scheduled again and again and tasks whose run()
\* terminates.
SpecFair ==
  /\ Spec
  /\ WF_vars(Swap) /\ WF_vars(Open) /\ WF_vars(Stop) /\ WF_vars(Join)
  /\ \A w \in 1..DefaultNumWorkers :
       /\ WF_vars(WorkerGet(w))
       /\ WF_vars(WorkerWrite(w))
       /\ SF_vars(TaskEnds(w))

\* --------------------------------------- the State methods called directly

\* Events each transition_state tests for.
Recognised(s) ==
  CASE ClassOf(s) = "InitialState" -> {"-go_to_state_a-", "-go_to_state_b-",
                                       "-go_to_state_c-", "-download-", "-PROGRESS-"}
    [] ClassOf(s) = "StateA" -> {"-go_to_state_b-", "-go_to_initial-"}
    [] ClassOf(s) = "StateB" -> {"-go_to_state_a-", "-go_to_initial-"}
    [] ClassOf(s) = "StateC" -> {"-close_state_c-"}

Called(method, s, event, values, has_list) ==
  [method |-> method, state |-> s, event |-> event, values |-> values,
   has_list |-> has_list]

UnitOpen ==
  \E s \in StateNames :
    /\ call' = Called("open_window", s, None, NoValues, FALSE)
    /\ SetObjects(open_window(Objects, s))
    /\ UNCHANGED <<current_state, pc, next_state_name, data, dm_vars, worker_vars>>

UnitClose ==
  \E s \in StateNames :
    /\ call' = Called("close_window", s, None, NoValues, FALSE)
    /\ SetObjects(close_window(Objects, s))
    /\ UNCHANGED <<current_state, pc, next_state_name, data, dm_vars, worker_vars>>

\* values holds file_url for the window with the input field and "-PROGRESS-"
\* for a "-PROGRESS-" event.
UnitValues(s, event) ==
  {v \in Values :
     /\ (s # "initial" => v.file_url = NoValues.file_url)
     /\ (event # "-PROGRESS-" => v.progress = NoValues.progress)}

UnitTransition ==
  \E s \in StateNames, event \in Events, has_list \in BOOLEAN :
   \E values \in UnitValues(s, event) :
    LET r == transition_state(Objects, s, event, values, has_list)
    IN /\ WithinBounds(r.m)
       /\ call' = Called("transition_state", s, event, values, has_list)
       /\ SetObjects(r.m)
       /\ next_state_name' = r.next
       /\ data' = r.data
       /\ UNCHANGED <<current_state, pc, dm_vars, worker_vars>>

NextUnit == UnitOpen \/ UnitClose \/ UnitTransition

SpecUnit == Init /\ [][NextUnit]_vars

\* ------------------------------------------------ a DownloadManager client

InitDM == \E n \in 1..MaxWorkers : InitWith(n)

ClientSetCallback ==
  /\ \E cb \in {"None", "sink"} : DMSetCallback(cb)
  /\ UNCHANGED <<gui_vars, main_vars, worker_vars>>

ClientAddTask ==
  /\ AddTask(MaxClientTasks)
  /\ UNCHANGED <<gui_vars, main_vars, worker_vars>>

ClientStart ==
  /\ StartWorkers
  /\ UNCHANGED <<gui_vars, main_vars, dm_vars>>

ClientStop ==
  /\ StopWorkers
  /\ UNCHANGED <<gui_vars, main_vars, worker_vars>>

\* The client joins every thread start() returned, after a stop().
ClientJoin ==
  /\ pc = "init"
  /\ stops_called > 0
  /\ \A w \in Workers : wpc[w] \in Dead
  /\ pc' = "joined"
  /\ UNCHANGED <<gui_vars, current_state, call, next_state_name, data, dm_vars,
                 worker_vars>>

NextDM ==
  \/ ClientSetCallback
  \/ ClientAddTask
  \/ ClientStart
  \/ ClientStop
  \/ ClientJoin
  \/ \E w \in Workers : WorkerGet(w)
  \/ \E w \in Workers : WorkerReport(w)

SpecDM == InitDM /\ [][NextDM]_vars

\* ---------------------------- run() with a patched primary transition_state

MockTargets == StateNames \cup {"download", None, "state_x"}

\* The primary state's transition_state returns (next, None) and touches nothing.
MockPrimary ==
  /\ pc = "loop"
  /\ \E next \in MockTargets : ApplyResult(Objects, next, None)
  /\ UNCHANGED <<call, worker_vars>>

NextMock == Next \/ MockPrimary

SpecMock == Init /\ [][NextMock]_vars

\* ------------------------------------------------------------------ claims

SecondarySet == {secondary_windows[i] : i \in 1..Len(secondary_windows)}

\* C1: between two handled events of run(), current_state is a registered state
\* that is not in the secondary list, its window is open, and every other state
\* whose window is open is in the secondary list.
C1_OnePrimary ==
  pc = "loop" =>
    /\ current_state \in StateNames
    /\ current_state \notin SecondarySet
    /\ window[current_state] # NoWindow
    /\ \A s \in StateNames :
         (window[s] # NoWindow /\ s \notin SecondarySet) => s = current_state

C1_Witness ==
  /\ pc = "loop"
  /\ current_state = "state_b"
  /\ "state_c" \in SecondarySet
  /\ window["state_c"] # NoWindow
  /\ window["initial"] = NoWindow

\* A started pool that was not stopped and in which no worker can take a step.
PoolIdle ==
  /\ stops_called = 0
  /\ \A w \in Workers :
       \/ wpc[w] \in Dead
       \/ wpc[w] = "get" /\ task_queue = <<>>

\* C2: no task is run more than once, and when a started pool has nothing left
\* to do every task handed to add_task has been run exactly once and the
\* queue's unfinished-task count is zero, so that task_queue.join() returns.
C2_EveryTaskRunOnce ==
  /\ \A t \in Tasks : run_count[t] <= 1
  /\ PoolIdle =>
       /\ \A t \in 1..tasks_created : run_count[t] = 1
       /\ unfinished_tasks = 0

\* C3: once stop() was called and every worker thread joined, the queue holds
\* nothing but poison values and no worker is executing a task.
C3_DrainedAfterShutdown ==
  pc = "joined" =>
    /\ \A i \in 1..Len(task_queue) : task_queue[i] = Poison
    /\ \A w \in Workers : wpc[w] \in Dead

\* C4: an add_task made after stop() leaves the queue as it was.
C4_RejectedAfterStop ==
  [][(stops_called > 0 /\ tasks_created' > tasks_created)
       => task_queue' = task_queue]_vars

\* C5: no worker thread is ended by a fault of a task's run().
C5_WorkerSurvivesFault == \A w \in Workers : wpc[w] # "faulted"

\* C6: when the latest transition result is neither a registered state name nor
\* "download" nor None, run() has failed with a fatal error.
C6_UnknownTargetIsFatal ==
  (next_state_name \notin StateNames \cup {"download", None}) => pc = "fatal"

\* C7: handling a primary event whose transition returns the primary state's
\* own name changes neither current_state nor any window.
C7_StayIsNoOp ==
  [][((ReadPrimary \/ ReadProgress) /\ pc' # "stop"
        /\ next_state_name' = current_state)
       => (current_state' = current_state /\ window' = window)]_vars

\* C8: open_window on a state that holds a window and close_window on a state
\* that holds none change no window and raise nothing.
C8_OpenCloseIdempotent ==
  [][(/\ call'.state \in StateNames
      /\ \/ call'.method = "open_window" /\ window[call'.state] # NoWindow
         \/ call'.method = "close_window" /\ window[call'.state] = NoWindow)
       => (window' = window /\ raised' = None)]_vars

\* C9: transition_state on an event the state does not test for returns the
\* state's own name and no payload.
C9_UnrecognisedStays ==
  (call.method = "transition_state" /\ call.event \notin Recognised(call.state))
    => (next_state_name = call.state /\ data = None)

C9_Witness ==
  /\ call.method = "transition_state"
  /\ call.state = "state_c"
  /\ call.event = "-exit-"
  /\ next_state_name = "state_c"
  /\ data = None

\* C10: InitialState.transition_state returns "state_a" for "-go_to_state_a-",
\* "state_b" for "-go_to_state_b-", None for "-go_to_state_c-" with state C's
\* window open and state C last in the secondary list when the list was passed,
\* ("download", u) for "-download-" with a non-empty file_url u, and
\* (own name, None) for "-download-" with an empty file_url.
C10_InitialTransitions ==
  (call.method = "transition_state" /\ call.state = "initial") =>
    /\ call.event = "-go_to_state_a-" => next_state_name = "state_a"
    /\ call.event = "-go_to_state_b-" => next_state_name = "state_b"
    /\ call.event = "-go_to_state_c-" =>
         /\ next_state_name = None
         /\ window["state_c"] # NoWindow
         /\ call.has_list =>
              /\ secondary_windows # <<>>
              /\ secondary_windows[Len(secondary_windows)] = "state_c"
    /\ (call.event = "-download-" /\ call.values.file_url # "") =>
         /\ next_state_name = "download"
         /\ data = call.values.file_url
    /\ (call.event = "-download-" /\ call.values.file_url = "") =>
         /\ next_state_name = "initial"
         /\ data = None

C10_Witness ==
  /\ call.method = "transition_state"
  /\ call.state = "initial"
  /\ call.event = "-go_to_state_c-"
  /\ call.has_list
  /\ Len(secondary_windows) = 2
  /\ window["state_c"] # NoWindow

\* C11: StateA.transition_state returns "state_b" for "-go_to_state_b-" and
\* "initial" for "-go_to_initial-", StateB.transition_state returns "state_a"
\* for "-go_to_state_a-" and "initial" for "-go_to_initial-"; either returns a
\* registered state name and no payload, and its own name for every event it
\* does not test for.
C11_ABTransitions ==
  (call.method = "transition_state" /\ call.state \in {"state_a", "state_b"}) =>
    /\ (call.state = "state_a" /\ call.event = "-go_to_state_b-")
         => next_state_name = "state_b"
    /\ (call.state = "state_b" /\ call.event = "-go_to_state_a-")
         => next_state_name = "state_a"
    /\ call.event = "-go_to_initial-" => next_state_name = "initial"
    /\ next_state_name \in StateNames
    /\ call.event \notin Recognised(call.state) => next_state_name = call.state
    /\ data = None

C11_Witness ==
  /\ call.method = "transition_state"
  /\ call.state = "state_a"
  /\ call.event = "-go_to_state_b-"
  /\ next_state_name = "state_b"
  /\ data = None

PrimaryTargets == StateNames \ {"state_c"}

\* C13: a primary event whose result names a registered state is applied in
\* three steps: the former primary window is closed, the named state becomes
\* current_state, its window is opened; once run() is back at
\* read_all_windows the named state is primary with an open window and the
\* window of every other state outside the secondary list is closed; and the
\* three steps, once begun, are completed.
C13_PrimarySwap ==
  /\ [](pc = "swap" =>
          /\ next_state_name \in PrimaryTargets
          /\ window[current_state] = NoWindow)
  /\ [](pc = "open" =>
          /\ current_state = next_state_name
          /\ window[current_state] = NoWindow)
  /\ []((pc = "loop" /\ next_state_name \in PrimaryTargets) =>
          /\ current_state = next_state_name
          /\ window[current_state] # NoWindow
          /\ \A s \in StateNames \ SecondarySet :
               s # current_state => window[s] = NoWindow)
  /\ (pc = "swap") ~> (pc = "loop")

C13_Witness ==
  /\ pc = "loop"
  /\ next_state_name = "state_a"
  /\ current_state = "state_a"
  /\ window["state_a"] # NoWindow
  /\ window["initial"] = NoWindow

\* C14: when run() hands a "-PROGRESS-" event with value p to the primary
\* state "initial", the progress bar is visible and shows p if p is below 100,
\* and is hidden and reset to zero if p is 100 or more.
C14_ProgressBar ==
  [][(ReadProgress /\ current_state = "initial") =>
       LET p == Head(thread_events).value
       IN IF p < ProgressDone
            THEN progress_bar' = [visible |-> TRUE, value |-> p]
            ELSE progress_bar' = [visible |-> FALSE, value |-> 0]]_vars

\* A report of 100 was handled after an earlier report had shown the bar.
C14_Witness ==
  /\ pc = "loop"
  /\ current_state = "initial"
  /\ progress_bar.visible
  /\ thread_events # <<>>
  /\ Head(thread_events).value = ProgressDone
  /\ Head(thread_events).window = window["initial"]

\* C15: run() leaves its loop on the primary window's close or "-exit-" event,
\* calls stop() once and returns only when every worker thread has ended and
\* the queue is empty; and once run() has left the loop it returns.
C15_RunReturns ==
  /\ [](pc = "done" =>
          /\ stops_called = 1
          /\ \A w \in Workers : wpc[w] \in Dead
          /\ task_queue = <<>>)
  /\ (pc = "stop") ~> (pc = "done")

\* The number of poison values on the queue q.
RECURSIVE PoisonCount(_)
PoisonCount(q) ==
  IF q = <<>> THEN 0
  ELSE (IF Head(q) = Poison THEN 1 ELSE 0) + PoisonCount(Tail(q))

\* C16: after stop() the queue never holds more poison values than there are
\* worker threads still to end, and once every worker thread has ended no
\* poison value is left on the queue.
C16_NoSentinelLeft ==
  stops_called > 0 =>
    /\ PoisonCount(task_queue) <= Cardinality({w \in Workers : wpc[w] \notin Dead})
    /\ (\A w \in Workers : wpc[w] \in Dead) => PoisonCount(task_queue) = 0

\* Task t was taken off the queue by a worker, which then called its run().
Dequeued(t) == run_count[t] > 0

\* C17: tasks leave the queue in the order add_task was called: of two tasks,
\* the later one handed to add_task is dequeued only after the earlier one was,
\* and the tasks still queued are in add_task order.
C17_FifoDequeue ==
  /\ \A t1, t2 \in 1..tasks_created :
       (t1 < t2 /\ Dequeued(t2)) => Dequeued(t1)
  /\ \A i, j \in 1..Len(task_queue) :
       (i < j /\ task_queue[i] # Poison /\ task_queue[j] # Poison)
         => task_queue[i] < task_queue[j]

\* The second task has completed while the first one is still running.
C17_Witness ==
  /\ tasks_created = 2
  /\ Dequeued(1) /\ Dequeued(2)
  /\ \E w \in Workers : wpc[w] = "run" /\ wtask[w] = 1
  /\ \E w \in Workers : wpc[w] = "get" /\ wtask[w] # 2
  /\ \A w \in Workers : wtask[w] # 2
  /\ unfinished_tasks = 1

\* C18: handling a "-PROGRESS-" event in run() changes neither current_state
\* nor any window, puts nothing on the task queue and leaves run() at
\* read_all_windows.
C18_ProgressIsUpdateOnly ==
  [][ReadProgress =>
       /\ current_state' = current_state
       /\ window' = window
       /\ task_queue' = task_queue
       /\ tasks_created' = tasks_created
       /\ pc' = "loop"]_vars

\* C19: the progress lambda of run() never calls write_event_value on a window
\* reference that is None, and no worker thread is ended by an exception of
\* the lambda.
C19_CallbackNeverFaults ==
  [][\A w \in Workers :
       WorkerWrite(w) => (window[current_state] # NoWindow /\ wpc'[w] # "faulted")]_vars

\* C20: whenever run() is at read_all_windows, no state occurs twice in the
\* secondary list and every state in it has an open window.
C20_SecondaryIsSetOfOpen ==
  pc = "loop" =>
    /\ \A i, j \in 1..Len(secondary_windows) :
         i # j => secondary_windows[i] # secondary_windows[j]
    /\ \A i \in 1..Len(secondary_windows) :
         window[secondary_windows[i]] # NoWindow

\* C21: in run(), a "-download-" event of the primary state "initial" with a
\* non-empty file_url puts exactly one new task on the queue and changes
\* neither current_state nor the secondary list; and no step of run() other
\* than the handling of such an event puts a task on the queue.
C21_OnlyDownloadSubmits ==
  [][/\ (ReadPrimary /\ pc' # "stop" /\ next_state_name' = "download") =>
          /\ current_state = "initial"
          /\ data' \in FileUrls \ {""}
          /\ tasks_created' = tasks_created + 1
          /\ task_queue' = Append(task_queue, tasks_created')
          /\ current_state' = current_state
          /\ secondary_windows' = secondary_windows
          /\ pc' = "loop"
     /\ (tasks_created' # tasks_created
           \/ \E i \in 1..Len(task_queue') :
                /\ task_queue'[i] # Poison
                /\ \A j \in 1..Len(task_queue) : task_queue[j] # task_queue'[i])
          => (ReadPrimary /\ pc' # "stop" /\ next_state_name' = "download")]_vars

C21_Witness ==
  /\ pc = "loop"
  /\ next_state_name = "download"
  /\ data = "http://x"
  /\ tasks_created = 1
  /\ task_queue = <<1>>
  /\ current_state = "initial"
  /\ "state_c" \in SecondarySet

C23_SecondaryFrame ==
  [][\A s \in StateNames :
       \A event \in LayoutEvents(s) \cup {WIN_CLOSED} :
         (pc = "loop" /\ SecondaryEvent(s, event)) =>
           /\ current_state' = current_state
           /\ s # current_state
           /\ \A o \in StateNames \ {s} : window'[o] = window[o]
           /\ progress_bar' = progress_bar
           /\ tasks_created' = tasks_created
           /\ task_queue' = task_queue
           /\ pc' = "loop"
           /\ SelectSeq(secondary_windows', LAMBDA x : x # s)
                = SelectSeq(secondary_windows, LAMBDA x : x # s)
           /\ Len(secondary_windows') <= Len(secondary_windows)]_vars

\* State C was closed from its window while state B is primary and a task is
\* queued or running.
C23_Witness ==
  /\ pc = "loop"
  /\ next_state_name = None
  /\ current_state = "state_b"
  /\ window["state_b"] # NoWindow
  /\ window["state_c"] = NoWindow
  /\ secondary_windows = <<>>
  /\ tasks_created = 1

====
